---- MODULE Spec2Model ----
(***************************************************************************)
(* A model of the chattery chat relay (src/src/main.rs): the frame decoder *)
(* (Frame), the command parser (Command::parse), the per-connection reader *)
(* and writer tasks and the room registry task (rooms).                    *)
(*                                                                         *)
(* Bytes are one-character strings; a byte string (Vec<u8>, String) is a   *)
(* sequence of them.  Only ASCII bytes and the byte 0xFF are used, so a    *)
(* byte string is valid UTF-8 exactly when it holds no 0xFF byte, and a    *)
(* char of a String is one byte.                                           *)
(***************************************************************************)
EXTENDS Integers, Sequences, FiniteSets, TLC

VARIABLES
    \* ---- the server (Spec) ----
    nextId,     \* NEXT_ID of handle_connection
    state,      \* state[id]: the reader's State, Anon or User(Sender)
    frame,      \* frame[id]: the reader's Frame
    rpc,        \* rpc[id]: where the reader task is
    reads,      \* number of socket reads so far, those that return 0 too
    regQueue,   \* the registry mailbox: (Command, Sender) pairs in flight
    rooms,      \* the registry's HashMap: room name -> Vec of Sender
    regCur,     \* the pair the registry is processing / processed last
    regTodo,    \* the recipients the registry still has to send to
    mailbox,    \* mailbox[id]: the connection's outbound channel, each message
                \*          with its history (before, src)
    wpc,        \* wpc[id]: where the writer task is
    wcur,       \* wcur[id]: the message the writer is writing
    sockOut,    \* sockOut[id]: what was written to the client's socket, each
                \*          message with its history (src)
    sent,       \* history: sent[id] = copies of regCur's payload put in mailbox[id]
    enqJoined,  \* history: <<id, room>> such that id has enqueued Join(room)
    enqIn,      \* history: <<id, room>> such that the last Join(room)/Part(room)
                \*          id has enqueued is a Join
    framed,     \* history: framed[id] = payloads frame() has returned to reader id
    enq,        \* history: enq[id] = pairs reader id has sent to the registry
    firstLine,  \* history: firstLine[id] = the bytes client id has sent, up to
                \*          and with its first newline
    \* ---- the frame decoder alone (SpecFrame) ----
    fstream,    \* all bytes read from the socket so far
    fframe,     \* the Frame
    fout,       \* the payloads frame() has returned, in order
    fpc,        \* "read", "frame" or "panic"
    \* ---- the command parser alone (SpecParse) ----
    pline,      \* the payload handed to Command::parse
    pres,       \* its result
    \* ---- one turn of the reader alone (SpecReader) ----
    rstate,     \* the reader's State before the read
    rlines,     \* the lines the read returns, one after the other
    rres        \* where the reader is after its inner loop, and what it sent

srvVars == <<nextId, state, frame, rpc, reads, regQueue, rooms, regCur, regTodo,
             mailbox, wpc, wcur, sockOut, sent, enqJoined, enqIn, framed, enq,
             firstLine>>
frmVars == <<fstream, fframe, fout, fpc>>
prsVars == <<pline, pres>>
rdrVars == <<rstate, rlines, rres>>
vars == <<srvVars, frmVars, prsVars, rdrVars>>

----------------------------------------------------------------------------
(* Bytes and byte strings *)

NL == "\n"
SP == " "
Bad == "0xFF"

JOIN == <<"j", "o", "i", "n">>
PART == <<"p", "a", "r", "t">>
MSG == <<"m", "s", "g">>
SEPARATOR == <<":", " ">>

\* None of an Option
None == [tag |-> "None"]

\* slice.iter().position(|b| *b == x) / str::find(x): 1-based, 0 when absent
Position(s, x) ==
    IF \E i \in 1..Len(s) : s[i] = x
    THEN CHOOSE i \in 1..Len(s) : s[i] = x /\ \A j \in 1..(i - 1) : s[j] # x
    ELSE 0

\* Vec::pop / String::pop, the popped value dropped
Pop(s) == IF s = <<>> THEN s ELSE SubSeq(s, 1, Len(s) - 1)

\* String::from_utf8(bytes).is_ok()
ValidUtf8(s) == \A i \in 1..Len(s) : s[i] # Bad

\* all sequences over S of length lo..hi
SeqsOf(S, lo, hi) == UNION {[1..n -> S] : n \in lo..hi}

RECURSIVE Flatten(_)
Flatten(ss) == IF ss = <<>> THEN <<>> ELSE Head(ss) \o Flatten(Tail(ss))

----------------------------------------------------------------------------
(* Frame.  buf always holds BufSize bytes between operations (new and the  *)
(* resize that ends frame()); it is kept here without its trailing zero    *)
(* bytes: byte i of the Vec is buf[i] for i <= Len(buf) and zero after.    *)
(* The modelled input holds no zero byte.                                  *)

BufSize == 1024

FrameNew == [buf |-> <<>>, index |-> 0]

\* reader.read(&mut frame.buf) returning Ok(Len(chunk)): the bytes land at the
\* start of the slice; the bytes after them are left as they were
ReadInto(f, chunk) ==
    [f EXCEPT !.buf = chunk \o SubSeq(f.buf, Len(chunk) + 1, Len(f.buf))]

FrameUpdate(f, bytes_read) == [f EXCEPT !.index = f.index + bytes_read]

\* Frame::frame: [tag |-> "Panic"] when the slice buf[..index] is out of range,
\* None when it holds no newline, else the payload and the new Frame
FrameFrame(f) ==
    IF f.index > BufSize THEN [tag |-> "Panic"]
    ELSE LET scanned == SubSeq(f.buf, 1, IF f.index < Len(f.buf) THEN f.index ELSE Len(f.buf))
             pos == Position(scanned, NL)
         IN  IF pos = 0 THEN None
             ELSE [tag |-> "Some",
                   payload |-> SubSeq(f.buf, 1, pos),
                   frame |-> [f EXCEPT !.buf = SubSeq(f.buf, pos + 1, Len(f.buf))]]

----------------------------------------------------------------------------
(* Command::parse *)

Join(room) == [tag |-> "Join", room |-> room]
Part(room) == [tag |-> "Part", room |-> room]
Msg(room, msg) == [tag |-> "Msg", room |-> room, msg |-> msg]

ParseNoSpaceCheck(bytes) ==
    IF ~ValidUtf8(bytes) THEN None
    ELSE LET line == Pop(bytes)
             pos == Position(line, SP)
         IN  IF pos = 0 THEN None
             ELSE LET rest == SubSeq(line, pos + 1, Len(line))
                      command == Pop(SubSeq(line, 1, pos))
                  IN  IF command \in {JOIN, PART} /\ rest = <<>> THEN None
                      ELSE IF command = JOIN THEN Join(rest)
                      ELSE IF command = PART THEN Part(rest)
                      ELSE IF command = MSG
                           THEN LET pos2 == Position(rest, SP)
                                IN  IF pos2 = 0 THEN None
                                    ELSE Msg(Pop(SubSeq(rest, 1, pos2)),
                                             SubSeq(rest, pos2 + 1, Len(rest)))
                      ELSE None

Parse(bytes) ==
    IF ~ValidUtf8(bytes) THEN None
    ELSE LET line == Pop(bytes)
             pos == Position(line, SP)
         IN  IF pos = 0 THEN None
             ELSE LET rest == SubSeq(line, pos + 1, Len(line))
                      command == Pop(SubSeq(line, 1, pos))
                  IN  IF command \in {JOIN, PART} /\ rest = <<>> THEN None
                      ELSE IF command \in {JOIN, PART} /\ Position(rest, SP) # 0 THEN None
                      ELSE IF command = JOIN THEN Join(rest)
                      ELSE IF command = PART THEN Part(rest)
                      ELSE IF command = MSG
                           THEN LET pos2 == Position(rest, SP)
                                IN  IF pos2 = 0 THEN None
                                    ELSE Msg(Pop(SubSeq(rest, 1, pos2)),
                                             SubSeq(rest, pos2 + 1, Len(rest)))
                      ELSE None

----------------------------------------------------------------------------
(* Sender and the registry's room map *)

MaxConns == 2       \* connections accepted
MaxReads == 5       \* socket reads, all connections together
MailboxCap == 2     \* mpsc::channel(2) of handle_connection
RegistryCap == 1000 \* mpsc::channel(1_000) of main

Ids == 0..(MaxConns - 1)

Anon == [tag |-> "Anon"]
User(sender) == [tag |-> "User", sender |-> sender]

\* a Sender; its inner channel is mailbox[id]
NewSender(id, username) == [id |-> id, username |-> username]

SenderEqByName(a, b) == a.username = b.username

\* impl PartialEq for Sender
SenderEq(a, b) == a.id = b.id

\* room.iter().position(|s| s == &sender), 1-based, 0 when absent
MemberPosition(members, sender) ==
    IF \E i \in 1..Len(members) : SenderEq(members[i], sender)
    THEN CHOOSE i \in 1..Len(members) :
            /\ SenderEq(members[i], sender)
            /\ \A j \in 1..(i - 1) : ~SenderEq(members[j], sender)
    ELSE 0

RemoveAt(s, i) == SubSeq(s, 1, i - 1) \o SubSeq(s, i + 1, Len(s))

RoomsJoinPushTwice(rs, room, sender) ==
    IF room \in DOMAIN rs THEN [rs EXCEPT ![room] = Append(@, sender)]
    ELSE [r \in DOMAIN rs \cup {room} |-> IF r = room THEN <<sender, sender>> ELSE rs[r]]

\* Command::Join: rooms.entry(room).or_insert(vec![]).push(sender)
RoomsJoin(rs, room, sender) ==
    IF room \in DOMAIN rs
    THEN [rs EXCEPT ![room] = Append(@, sender)]
    ELSE [r \in DOMAIN rs \cup {room} |-> IF r = room THEN <<sender>> ELSE rs[r]]

RoomsPartKeepEmpty(rs, room, sender) ==
    IF room \notin DOMAIN rs THEN rs
    ELSE LET pos == MemberPosition(rs[room], sender)
         IN  IF pos = 0 THEN rs
             ELSE [rs EXCEPT ![room] = RemoveAt(@, pos)]

RoomsPartUnwrapOrFirst(rs, room, sender) ==
    IF room \notin DOMAIN rs THEN rs
    ELSE LET pos == MemberPosition(rs[room], sender)
             left == RemoveAt(rs[room], IF pos = 0 THEN 1 ELSE pos)
         IN  IF left = <<>>
             THEN [r \in DOMAIN rs \ {room} |-> rs[r]]
             ELSE [rs EXCEPT ![room] = left]

\* Command::Part
RoomsPart(rs, room, sender) ==
    IF room \notin DOMAIN rs THEN rs
    ELSE LET pos == MemberPosition(rs[room], sender)
         IN  IF pos = 0 THEN rs
             ELSE LET left == RemoveAt(rs[room], pos)
                  IN  IF left = <<>>
                      THEN [r \in DOMAIN rs \ {room} |-> rs[r]]
                      ELSE [rs EXCEPT ![room] = left]

\* Command::Msg: the payload, built once
Payload(sender, msg) == sender.username \o SEPARATOR \o msg \o <<NL>>

RecipientsIfMember(members, sender) ==
    IF MemberPosition(members, sender) = 0 THEN <<>>
    ELSE SelectSeq(members, LAMBDA s : ~SenderEq(s, sender))

\* Command::Msg: room.iter().filter(|s| *s != &sender)
Recipients(members, sender) == SelectSeq(members, LAMBDA s : ~SenderEq(s, sender))

----------------------------------------------------------------------------
(* What the clients send.  The first socket read of a connection returns   *)
(* one of FirstChunks, every later one one of LaterChunks.                 *)

RoomR == <<"r">>
BodyX == <<"x">>

LineA == <<"a", NL>>
LineJoin == JOIN \o <<SP>> \o RoomR \o <<NL>>
LinePart == PART \o <<SP>> \o RoomR \o <<NL>>
LineMsg == MSG \o <<SP>> \o RoomR \o <<SP>> \o BodyX \o <<NL>>

FirstChunks == {LineA, LineJoin}
LaterChunks == {LineJoin, LinePart, LineMsg, LineMsg \o LineMsg}

----------------------------------------------------------------------------
(* The server: handle_connection, handle_reader, handle_writer, rooms *)

\* regCur before the first recv
NoPair == [cmd |-> None]

\* b"enter username\n", the words as one token
PROMPT == <<"enter username", NL>>

SrvInit ==
    /\ nextId = 0
    /\ state = [i \in Ids |-> Anon]
    /\ frame = [i \in Ids |-> FrameNew]
    /\ rpc = [i \in Ids |-> "none"]
    /\ reads = 0
    /\ regQueue = <<>>
    /\ rooms = <<>>
    /\ regCur = NoPair
    /\ regTodo = <<>>
    /\ mailbox = [i \in Ids |-> <<>>]
    /\ wpc = [i \in Ids |-> "none"]
    /\ wcur = [i \in Ids |-> None]
    /\ sockOut = [i \in Ids |-> <<>>]
    /\ sent = [i \in Ids |-> 0]
    /\ enqJoined = {}
    /\ enqIn = {}
    /\ framed = [i \in Ids |-> 0]
    /\ enq = [i \in Ids |-> 0]
    /\ firstLine = [i \in Ids |-> <<>>]

\* handle_connection: a new id, a new channel, the two tasks spawned; and the
\* first step of handle_writer, writer.write(b"enter username\n"), which
\* nothing else in the server observes
Connect ==
    /\ nextId < MaxConns
    /\ nextId' = nextId + 1
    /\ rpc' = [rpc EXCEPT ![nextId] = "read"]
    /\ wpc' = [wpc EXCEPT ![nextId] = "recv"]
    /\ sockOut' = [sockOut EXCEPT ![nextId] = Append(@, [bytes |-> PROMPT, src |-> None])]
    /\ UNCHANGED <<state, frame, reads, regQueue, rooms, regCur, regTodo, mailbox, wcur,
                   sent, enqJoined, enqIn, framed, enq, firstLine,
                   frmVars, prsVars, rdrVars>>

\* handle_reader, State::Anon arm: the payload becomes the username; expect()
\* panics on bytes that are not UTF-8
AnonPayload(id, payload) ==
    IF ValidUtf8(Pop(payload))
    THEN [rpc |-> "frame", state |-> User(NewSender(id, Pop(payload))), cmd |-> None]
    ELSE [rpc |-> "panic", state |-> Anon, cmd |-> None]

UserPayloadStopOnReject(st, payload) ==
    [rpc |-> IF Parse(payload) = None THEN "panic" ELSE "frame",
     state |-> st, cmd |-> Parse(payload)]

\* handle_reader, State::User arm: the payload is parsed, a command is sent on
UserPayload(st, payload) ==
    [rpc |-> "frame", state |-> st, cmd |-> Parse(payload)]

HandlePayloadParseFirst(id, st, payload) ==
    IF st = Anon
    THEN [AnonPayload(id, payload) EXCEPT !.cmd = Parse(payload)]
    ELSE UserPayload(st, payload)

\* handle_reader, the match on &state
HandlePayload(id, st, payload) ==
    IF st = Anon THEN AnonPayload(id, payload) ELSE UserPayload(st, payload)

\* handle_reader, step 2: `while let Some(payload) = frame.frame()`, to its end:
\* where the reader is then, its Frame and State, the pairs it has sent and
\* the number of payloads frame() returned
RECURSIVE Drain(_, _, _, _, _)
Drain(id, f, st, pairs, n) ==
    LET res == FrameFrame(f)
    IN  IF res.tag = "Panic"
        THEN [rpc |-> "panic", frame |-> f, state |-> st, pairs |-> pairs, n |-> n]
        ELSE IF res.tag = "None"
        THEN [rpc |-> "read", frame |-> f, state |-> st, pairs |-> pairs, n |-> n]
        ELSE LET h == HandlePayload(id, st, res.payload)
             IN  IF h.rpc = "panic"
                 THEN [rpc |-> "panic", frame |-> res.frame, state |-> st,
                       pairs |-> pairs, n |-> n + 1]
                 ELSE Drain(id, res.frame, h.state,
                            IF h.cmd = None THEN pairs
                            ELSE Append(pairs, [cmd |-> h.cmd, sender |-> h.state.sender]),
                            n + 1)

\* history: enqJoined / enqIn after id has enqueued the commands of pairs
RECURSIVE JoinedAfter(_, _)
JoinedAfter(ej, pairs) ==
    IF pairs = <<>> THEN ej
    ELSE LET p == Head(pairs)
         IN  JoinedAfter(IF p.cmd.tag = "Join"
                         THEN ej \cup {<<p.sender.id, p.cmd.room>>} ELSE ej,
                         Tail(pairs))

RECURSIVE InAfter(_, _)
InAfter(ei, pairs) ==
    IF pairs = <<>> THEN ei
    ELSE LET p == Head(pairs)
             k == <<p.sender.id, p.cmd.room>>
         IN  InAfter(IF p.cmd.tag = "Join" THEN ei \cup {k}
                     ELSE IF p.cmd.tag = "Part" THEN ei \ {k}
                     ELSE ei,
                     Tail(pairs))

\* history: the bytes a client has sent up to its first newline, after it
\* has sent chunk
FirstLineAfter(line, chunk) ==
    IF Position(line, NL) # 0 THEN line
    ELSE IF Position(chunk, NL) = 0 THEN line \o chunk
    ELSE line \o SubSeq(chunk, 1, Position(chunk, NL))

\* a pair as it sits in the registry mailbox, with its history: the ids that
\* had enqueued Join(room) before it (before), those of them that had not
\* enqueued Part(room) since (entitled), and its number among the pairs its
\* reader has sent, n0 of them before pairs (seq)
Tagged(pairs, ej, ei, n0) ==
    [i \in 1..Len(pairs) |->
        LET room == pairs[i].cmd.room
            pre == SubSeq(pairs, 1, i - 1)
        IN  [cmd |-> pairs[i].cmd, sender |-> pairs[i].sender,
             before |-> {id \in Ids : <<id, room>> \in JoinedAfter(ej, pre)},
             entitled |-> {id \in Ids : <<id, room>> \in InAfter(ei, pre)},
             seq |-> n0 + i]]

EnqueueFront(q, items) == items \o q

\* room_sender.send((command, sender)).await, for each pair in order
Enqueue(q, items) == q \o items

\* handle_reader, one turn of 'reader with reader.read returning Ok(n), n > 0:
\* read, update, and the inner loop to its end.  Each send to the registry
\* completes at once (its mailbox has room).
ReaderRead(id, chunk) ==
    /\ rpc[id] = "read"
    /\ reads < MaxReads
    /\ Len(chunk) <= BufSize
    /\ \E d \in {Drain(id, FrameUpdate(ReadInto(frame[id], chunk), Len(chunk)),
                      state[id], <<>>, 0)} :
           /\ Len(regQueue) + Len(d.pairs) <= RegistryCap
           /\ frame' = [frame EXCEPT ![id] = d.frame]
           /\ state' = [state EXCEPT ![id] = d.state]
           /\ rpc' = [rpc EXCEPT ![id] = d.rpc]
           /\ regQueue' = Enqueue(regQueue, Tagged(d.pairs, enqJoined, enqIn, enq[id]))
           /\ enqJoined' = JoinedAfter(enqJoined, d.pairs)
           /\ enqIn' = InAfter(enqIn, d.pairs)
           /\ framed' = [framed EXCEPT ![id] = @ + d.n]
           /\ enq' = [enq EXCEPT ![id] = @ + Len(d.pairs)]
    /\ firstLine' = [firstLine EXCEPT ![id] = FirstLineAfter(@, chunk)]
    /\ reads' = reads + 1
    /\ UNCHANGED <<nextId, rooms, regCur, regTodo, mailbox, wpc, wcur, sockOut, sent,
                   frmVars, prsVars, rdrVars>>

\* handle_reader, step 1: reader.read returns Ok(0) or Err
ReaderEof(id) ==
    /\ rpc[id] = "read"
    /\ reads < MaxReads
    /\ reads' = reads + 1
    /\ rpc' = [rpc EXCEPT ![id] = "done"]
    /\ UNCHANGED <<nextId, state, frame, regQueue, rooms, regCur, regTodo, mailbox, wpc,
                   wcur, sockOut, sent, enqJoined, enqIn, framed, enq, firstLine,
                   frmVars, prsVars, rdrVars>>

TakeLast(q) == [item |-> q[Len(q)], rest |-> SubSeq(q, 1, Len(q) - 1)]

\* receiver.recv().await of rooms
Take(q) == [item |-> Head(q), rest |-> Tail(q)]

\* rooms: receiver.recv() returns a pair; Join and Part are done at once, Msg
\* builds the payload and starts the loop over the recipients
RegistryRecv ==
    /\ regTodo = <<>>
    /\ regQueue # <<>>
    /\ \E t \in {Take(regQueue)} : \E m \in {t.item} :
           /\ regCur' = m
           /\ regQueue' = t.rest
           /\ rooms' = IF m.cmd.tag = "Join" THEN RoomsJoin(rooms, m.cmd.room, m.sender)
                       ELSE IF m.cmd.tag = "Part" THEN RoomsPart(rooms, m.cmd.room, m.sender)
                       ELSE rooms
           /\ regTodo' = IF m.cmd.tag = "Msg" /\ m.cmd.room \in DOMAIN rooms
                         THEN Recipients(rooms[m.cmd.room], m.sender)
                         ELSE <<>>
    /\ sent' = [i \in Ids |-> 0]
    /\ UNCHANGED <<nextId, state, frame, rpc, reads, mailbox, wpc, wcur, sockOut,
                   enqJoined, enqIn, framed, enq, firstLine,
                   frmVars, prsVars, rdrVars>>

\* rooms: recipient.inner.send(bytes.clone()).await completes for the next
\* recipient; it waits while that mailbox is full.  (The mailbox of a member is
\* never closed: the room holds a Sender of it.)
RegistrySend ==
    /\ regTodo # <<>>
    /\ LET to == Head(regTodo).id
       IN  /\ Len(mailbox[to]) < MailboxCap
           /\ mailbox' = [mailbox EXCEPT ![to] = Append(@,
                              [bytes |-> Payload(regCur.sender, regCur.cmd.msg),
                               before |-> regCur.before,
                               src |-> [from |-> regCur.sender.id,
                                        room |-> regCur.cmd.room,
                                        seq |-> regCur.seq]])]
           /\ sent' = [sent EXCEPT ![to] = @ + 1]
    /\ regTodo' = Tail(regTodo)
    /\ UNCHANGED <<nextId, state, frame, rpc, reads, regQueue, rooms, regCur, wpc, wcur,
                   sockOut, enqJoined, enqIn, framed, enq, firstLine,
                   frmVars, prsVars, rdrVars>>

\* handle_writer: receiver.recv() returns a message
WriterRecv(id) ==
    /\ wpc[id] = "recv"
    /\ mailbox[id] # <<>>
    /\ wcur' = [wcur EXCEPT ![id] = Head(mailbox[id])]
    /\ mailbox' = [mailbox EXCEPT ![id] = Tail(@)]
    /\ wpc' = [wpc EXCEPT ![id] = "write"]
    /\ UNCHANGED <<nextId, state, frame, rpc, reads, regQueue, rooms, regCur, regTodo,
                   sockOut, sent, enqJoined, enqIn, framed, enq, firstLine,
                   frmVars, prsVars, rdrVars>>

\* handle_writer: writer.write_all(&message).await completes
WriterWrite(id) ==
    /\ wpc[id] = "write"
    /\ sockOut' = [sockOut EXCEPT ![id] = Append(@, [bytes |-> wcur[id].bytes,
                                                     src |-> wcur[id].src])]
    /\ wcur' = [wcur EXCEPT ![id] = None]
    /\ wpc' = [wpc EXCEPT ![id] = "recv"]
    /\ UNCHANGED <<nextId, state, frame, rpc, reads, regQueue, rooms, regCur, regTodo,
                   mailbox, sent, enqJoined, enqIn, framed, enq, firstLine,
                   frmVars, prsVars, rdrVars>>

\* handle_writer: writer.write_all(&message).await never completes: the client
\* has stopped reading its socket and the socket's buffers are full
WriterBlocked(id) ==
    /\ wpc[id] = "write"
    /\ wpc' = [wpc EXCEPT ![id] = "blocked"]
    /\ UNCHANGED <<nextId, state, frame, rpc, reads, regQueue, rooms, regCur, regTodo,
                   mailbox, wcur, sockOut, sent, enqJoined, enqIn, framed, enq, firstLine,
                   frmVars, prsVars, rdrVars>>

SrvNext ==
    \/ Connect
    \/ \E id \in Ids : \E chunk \in (IF state[id] = Anon THEN FirstChunks ELSE LaterChunks) :
          ReaderRead(id, chunk)
    \/ \E id \in Ids : ReaderEof(id)
    \/ RegistryRecv
    \/ RegistrySend
    \/ \E id \in Ids : WriterRecv(id)
    \/ \E id \in Ids : WriterWrite(id)
    \/ \E id \in Ids : WriterBlocked(id)

FrmIdle == fstream = <<>> /\ fframe = FrameNew /\ fout = <<>> /\ fpc = "read"
PrsIdle == pline = <<>> /\ pres = None
RdrIdle == rstate = Anon /\ rlines = <<>> /\ rres = None

Init == SrvInit /\ FrmIdle /\ PrsIdle /\ RdrIdle
Next == SrvNext
Spec == Init /\ [][Next]_vars

\* The server when a line may reach it in more than one read: the client's
\* first line `ab`, of which one read returns the first byte and the next
\* read the rest
LineAb == <<"a", "b", NL>>
SplitChunks == {SubSeq(LineAb, 1, 1), SubSeq(LineAb, 2, Len(LineAb))}

SplitNext ==
    \/ SrvNext
    \/ \E id \in Ids : \E chunk \in SplitChunks : ReaderRead(id, chunk)

SpecSplit == Init /\ [][SplitNext]_vars

----------------------------------------------------------------------------
(* Properties of the server *)

\* the registry is in, or has just finished, the fan-out of a Msg to a room
\* that exists; the room map is as the Msg found it
InFanout == regCur.cmd.tag = "Msg" /\ regCur.cmd.room \in DOMAIN rooms
FanoutDone == InFanout /\ regTodo = <<>>
FanoutMembers == rooms[regCur.cmd.room]
Waiting(id) == \E i \in 1..Len(regTodo) : regTodo[i].id = id
Elems(q) == {q[i] : i \in 1..Len(q)}

\* C1: when the registry processes a Msg from A for an existing room, the
\* payload is put in the mailbox of every member whose id differs from A's
\* (each has it, or is still to be sent to, and has it once the loop is over),
\* and never in A's own mailbox, whatever the members' usernames are
C1_BroadcastExclusion ==
    InFanout =>
        /\ sent[regCur.sender.id] = 0
        /\ ~Waiting(regCur.sender.id)
        /\ \A i \in 1..Len(FanoutMembers) :
              LET m == FanoutMembers[i]
              IN  m.id # regCur.sender.id => (sent[m.id] >= 1 \/ Waiting(m.id))

\* a fan-out is over; the sender is a member, another member has the sender's
\* username and has got the payload
C1_Witness ==
    /\ FanoutDone
    /\ \E i, j \in 1..Len(FanoutMembers) :
          /\ FanoutMembers[i].id = regCur.sender.id
          /\ FanoutMembers[j].id # regCur.sender.id
          /\ FanoutMembers[j].username = regCur.sender.username
          /\ sent[FanoutMembers[j].id] >= 1

\* C2: commands are applied in the order they were enqueued: a payload is only
\* ever in the mailbox (or the writer's hands) of a connection that had
\* enqueued Join(room) before the Msg was enqueued, and when the fan-out of a
\* Msg is over, every connection other than the sender that had enqueued
\* Join(room) before it, and no Part(room) in between, has got the payload
C2_RegistryOrdering ==
    /\ \A id \in Ids :
          /\ \A e \in Elems(mailbox[id]) : id \in e.before
          /\ wcur[id] # None => id \in wcur[id].before
    /\ regCur.cmd.tag = "Msg" /\ regTodo = <<>> =>
          \A id \in regCur.entitled \ {regCur.sender.id} : sent[id] >= 1

\* the fan-out of a Msg is over, and a connection whose Join was enqueued
\* before the Msg has got the payload
C2_Witness ==
    /\ FanoutDone
    /\ \E id \in regCur.entitled \ {regCur.sender.id} : sent[id] = 1

\* C3: every room's member list holds each member id at most once
C3_NoDuplicateMembers ==
    \A room \in DOMAIN rooms :
        \A i, j \in 1..Len(rooms[room]) :
            i # j => rooms[room][i].id # rooms[room][j].id

\* C4: between two registry operations, every room of the room map has at
\* least one member
C4_NoEmptyRoom == \A room \in DOMAIN rooms : rooms[room] # <<>>

\* the registry has processed a Part from a connection that had joined, and
\* the room is gone
C4_Witness ==
    /\ regCur.cmd.tag = "Part"
    /\ regCur.sender.id \in regCur.entitled
    /\ regCur.cmd.room \notin DOMAIN rooms

\* the registry waits in send() for a recipient whose mailbox is full and whose
\* writer will never take a message from it again
RegistryWaitsForever ==
    /\ regTodo # <<>>
    /\ Len(mailbox[Head(regTodo).id]) = MailboxCap
    /\ wpc[Head(regTodo).id] = "blocked"

\* C5: the registry never waits indefinitely on one recipient's mailbox
C5_FanoutNeverBlocked == ~RegistryWaitsForever

\* C7: no pair is sent to the registry while the connection is Anon, the first
\* payload is not among the payloads sent on as commands, and a Named
\* connection stays Named, with the same Sender
C7_UsernameFirst ==
    /\ [](\A id \in Ids :
            /\ state[id] = Anon => enq[id] = 0
            /\ state[id] # Anon => framed[id] >= 1 /\ enq[id] <= framed[id] - 1)
    /\ [][\A id \in Ids : state[id] # Anon => state'[id] = state[id]]_vars

\* a connection whose first line was `join r`: it is Named so, that line sent
\* no command, and its later lines did
C7_Witness ==
    \E id \in Ids :
        /\ state[id] = User(NewSender(id, Pop(LineJoin)))
        /\ framed[id] >= 2
        /\ enq[id] = framed[id] - 1

\* C10: when the fan-out of a Msg is over, every member of the room other
\* than the sender has had exactly one copy of the payload put in its mailbox
C10_ExactlyOnce ==
    FanoutDone =>
        \A i \in 1..Len(FanoutMembers) :
            LET m == FanoutMembers[i]
            IN  m.id # regCur.sender.id => sent[m.id] = 1

\* id has an entry in the member list of room
IsMember(id, room) ==
    room \in DOMAIN rooms /\ \E i \in 1..Len(rooms[room]) : rooms[room][i].id = id

\* the registry has nothing left to do for id: no pair of id is in its mailbox
\* and it is not in the middle of a fan-out
RegistryDoneWith(id) ==
    /\ regTodo = <<>>
    /\ \A i \in 1..Len(regQueue) : regQueue[i].sender.id # id

\* C11: a connection whose reader has terminated is dropped from every room:
\* once the registry has processed all that the connection had sent it, the
\* connection is a member of no room (so no later Msg is sent to it)
C11_DepartedDropped ==
    \A id \in Ids :
        rpc[id] = "done" /\ RegistryDoneWith(id) =>
            \A room \in DOMAIN rooms : ~IsMember(id, room)

\* this step is the registry taking the pair at the head of its mailbox
RecvStep ==
    /\ regTodo = <<>>
    /\ regQueue # <<>>
    /\ regQueue' = Tail(regQueue)
    /\ regCur' = Head(regQueue)

\* C12: a Join naming a room that is not in the map creates it with the
\* joiner as its only member (so a room joined again after it was deleted
\* holds none of its earlier members), and the Part of a room's only member
\* takes the room out of the map
C12_RoomLifecycle ==
    [][RecvStep =>
        LET m == Head(regQueue)
            room == m.cmd.room
        IN  /\ (m.cmd.tag = "Join" /\ room \notin DOMAIN rooms) =>
                   (room \in DOMAIN rooms' /\ rooms'[room] = <<m.sender>>)
            /\ (m.cmd.tag = "Part" /\ room \in DOMAIN rooms
                    /\ rooms[room] = <<m.sender>>) =>
                   room \notin DOMAIN rooms']_vars

\* the registry has processed a Join that made the room anew: the joiner is
\* its only member, and another connection had joined the room before (and
\* has left it since, which deleted it)
C12_Witness ==
    /\ regCur.cmd.tag = "Join"
    /\ regCur.cmd.room \in DOMAIN rooms
    /\ rooms[regCur.cmd.room] = <<regCur.sender>>
    /\ \E id \in regCur.before : id # regCur.sender.id

\* this step is the registry putting the payload in the next recipient's
\* mailbox
SendStep == regTodo # <<>> /\ regTodo' = Tail(regTodo)

\* C13: what the registry puts in a recipient's mailbox for Msg(room, body) is
\* the first line the sender's client sent, without its newline, then `: `,
\* then body, then one newline; the same bytes for every recipient
C13_PayloadFormat ==
    [][SendStep =>
        LET to == Head(regTodo).id
            line == firstLine[regCur.sender.id]
        IN  /\ Len(mailbox'[to]) = Len(mailbox[to]) + 1
            /\ mailbox'[to][Len(mailbox'[to])].bytes =
                   Pop(line) \o SEPARATOR \o regCur.cmd.msg \o <<NL>>]_vars

\* C15: when the registry has processed Part(room) from a connection, no
\* entry of the room's member list carries that connection's id
C15_PartRemovesSender ==
    regCur.cmd.tag = "Part" => ~IsMember(regCur.sender.id, regCur.cmd.room)

\* C16: a Part or a Msg that names a room not in the map, and a Part from a
\* connection that is not a member of the room, leave the room map as it was
\* and put nothing in any mailbox; no Msg changes the room map
C16_NoOpCommands ==
    [][RecvStep =>
        LET m == Head(regQueue)
            room == m.cmd.room
            nothing == rooms' = rooms /\ regTodo' = <<>> /\ mailbox' = mailbox
        IN  /\ (m.cmd.tag \in {"Part", "Msg"} /\ room \notin DOMAIN rooms) => nothing
            /\ (m.cmd.tag = "Part" /\ ~IsMember(m.sender.id, room)) => nothing
            /\ m.cmd.tag = "Msg" => rooms' = rooms]_vars

\* the registry has processed the Part of a connection that never joined the
\* room, and the room, which another connection has joined, is there still
C16_Witness ==
    /\ regCur.cmd.tag = "Part"
    /\ regCur.sender.id \notin regCur.before
    /\ regCur.cmd.room \in DOMAIN rooms
    /\ regTodo = <<>>

\* the relayed messages on their way to client id, by their history: those
\* written to its socket, the one its writer holds, those in its mailbox
Relayed(id) ==
    LET src(q) == [i \in 1..Len(q) |-> q[i].src]
    IN  SelectSeq(src(sockOut[id]), LAMBDA x : x # None)
        \o (IF wcur[id] = None THEN <<>> ELSE <<wcur[id].src>>)
        \o src(mailbox[id])

\* m1 and m2 come from one connection and name one room
SameFlow(m1, m2) == m1.from = m2.from /\ m1.room = m2.room

\* C20: the order of one connection's messages to one room is kept from end
\* to end: the registry takes them in the order the connection sent them, and
\* no recipient has a later one written, or waiting to be written, before an
\* earlier one
C20_PerSenderOrder ==
    /\ \A i, j \in 1..Len(regQueue) :
          (i < j /\ regQueue[i].sender.id = regQueue[j].sender.id) =>
              regQueue[i].seq < regQueue[j].seq
    /\ \A i \in 1..Len(regQueue) :
          (regCur # NoPair /\ regCur.sender.id = regQueue[i].sender.id) =>
              regCur.seq < regQueue[i].seq
    /\ \A id \in Ids :
          \A i, j \in 1..Len(Relayed(id)) :
              (i < j /\ SameFlow(Relayed(id)[i], Relayed(id)[j])) =>
                  Relayed(id)[i].seq <= Relayed(id)[j].seq

\* a client has had two messages of one connection to one room written to
\* its socket, the one sent first before the other
C20_Witness ==
    \E id \in Ids :
        \E i, j \in 1..Len(sockOut[id]) :
            /\ i < j
            /\ sockOut[id][i].src # None
            /\ sockOut[id][j].src # None
            /\ SameFlow(sockOut[id][i].src, sockOut[id][j].src)
            /\ sockOut[id][i].src.seq < sockOut[id][j].src.seq

\* C21: a Msg for an existing room from a connection that is not a member of
\* it, having never joined it or having parted it, goes to every member of
\* the room all the same: each has the payload, or is still to be sent to,
\* and has it once the loop is over
C21_NoMembershipCheck ==
    (InFanout /\ ~IsMember(regCur.sender.id, regCur.cmd.room)) =>
        \A i \in 1..Len(FanoutMembers) :
            sent[FanoutMembers[i].id] >= 1 \/ Waiting(FanoutMembers[i].id)

\* the fan-out of a Msg from a connection that has never joined the room is
\* over, and a member of the room has got the payload
C21_Witness ==
    /\ FanoutDone
    /\ regCur.sender.id \notin regCur.before
    /\ ~IsMember(regCur.sender.id, regCur.cmd.room)
    /\ \E i \in 1..Len(FanoutMembers) : sent[FanoutMembers[i].id] >= 1

----------------------------------------------------------------------------
(* The frame decoder alone: one reader's Frame, fed a byte stream in reads *)
(* of any sizes, as in handle_reader's step 1 and step 2.                  *)

MaxChunk == 3       \* bytes one read returns
MaxStream == 5      \* bytes read in all

FrameBytes == {"a", "b", NL}
FrameChunks == SeqsOf(FrameBytes, 1, MaxChunk)

FrmInit == fstream = <<>> /\ fframe = FrameNew /\ fout = <<>> /\ fpc = "read"

\* reader.read returns Ok(n), n > 0, then frame.update(n)
FeedRead(chunk) ==
    /\ fpc = "read"
    /\ Len(fstream) + Len(chunk) <= MaxStream
    /\ Len(chunk) <= BufSize
    /\ fframe' = FrameUpdate(ReadInto(fframe, chunk), Len(chunk))
    /\ fstream' = fstream \o chunk
    /\ fpc' = "frame"
    /\ UNCHANGED <<fout, srvVars, prsVars, rdrVars>>

\* one turn of `while let Some(payload) = frame.frame()`
FeedFrame ==
    /\ fpc = "frame"
    /\ LET res == FrameFrame(fframe)
       IN  IF res.tag = "Panic" THEN fpc' = "panic" /\ UNCHANGED <<fframe, fout>>
           ELSE IF res.tag = "None" THEN fpc' = "read" /\ UNCHANGED <<fframe, fout>>
           ELSE fpc' = "frame" /\ fframe' = res.frame /\ fout' = Append(fout, res.payload)
    /\ UNCHANGED <<fstream, srvVars, prsVars, rdrVars>>

FrmNext ==
    \/ \E chunk \in FrameChunks : FeedRead(chunk)
    \/ FeedFrame

InitFrame == SrvInit /\ FrmInit /\ PrsIdle /\ RdrIdle
SpecFrame == InitFrame /\ [][FrmNext]_vars

\* the payloads frame() returns, called until it returns None
RECURSIVE FramesOf(_)
FramesOf(f) ==
    LET res == FrameFrame(f)
    IN  IF res.tag = "Some" THEN <<res.payload>> \o FramesOf(res.frame) ELSE <<>>

\* the payloads extracted when the whole stream arrives in one read
OneRead(stream) == FramesOf(FrameUpdate(ReadInto(FrameNew, stream), Len(stream)))

\* C6: for a newline-terminated stream, however it was split into reads, the
\* payloads extracted are those extracted when it arrives in one read
C6_ChunkIndependent ==
    (fpc = "read" /\ fstream # <<>> /\ fstream[Len(fstream)] = NL) =>
        fout = OneRead(fstream)

----------------------------------------------------------------------------
(* The frame decoder on a long stream: besides the short reads, up to      *)
(* MaxFills reads that fill the whole buffer, with a line of BufSize bytes *)
(* or with the first BufSize bytes of a longer line.                       *)

MaxFills == 1

FillLine == [i \in 1..BufSize |-> IF i = BufSize THEN NL ELSE "a"]
FillPart == [i \in 1..BufSize |-> "a"]
FillChunks == {FillLine, FillPart}

\* bytes read in reads that filled the buffer, and in the other reads
Fills == Len(fstream) \div BufSize
Shorts == Len(fstream) % BufSize

\* reader.read returns Ok(n), n > 0, then frame.update(n)
LongRead(chunk) ==
    /\ fpc = "read"
    /\ IF Len(chunk) = BufSize THEN Fills < MaxFills
                               ELSE Shorts + Len(chunk) <= MaxStream
    /\ fframe' = FrameUpdate(ReadInto(fframe, chunk), Len(chunk))
    /\ fstream' = fstream \o chunk
    /\ fpc' = "frame"
    /\ UNCHANGED <<fout, srvVars, prsVars, rdrVars>>

LongNext ==
    \/ \E chunk \in FillChunks : LongRead(chunk)
    \/ \E chunk \in FrameChunks : LongRead(chunk)
    \/ FeedFrame

SpecLong == InitFrame /\ [][LongNext]_vars

\* the bytes read that frame() has not yet returned in a payload
Unconsumed == Len(fstream) - Len(Flatten(fout))

\* C17: the decoder's cursor never exceeds the buffer's length and counts
\* only bytes not yet consumed, and frame() never aborts the reader, however
\* many bytes have been read and however long a message is
C17_CursorInBounds ==
    /\ fframe.index <= BufSize
    /\ fframe.index <= Unconsumed
    /\ fpc # "panic"

\* frame() has aborted the reader
FramePanicked == fpc = "panic"

\* the newline-terminated messages of a byte string that ends with a newline
RECURSIVE LinesOf(_)
LinesOf(s) ==
    IF s = <<>> THEN <<>>
    ELSE <<SubSeq(s, 1, Position(s, NL))>> \o LinesOf(SubSeq(s, Position(s, NL) + 1, Len(s)))

\* this step is a read; the bytes it has returned; they are whole messages:
\* no message was left unfinished by the reads before, none is by this one
ReadStep == fpc = "read" /\ fpc' = "frame"
LastRead == SubSeq(fstream', Len(fstream) + 1, Len(fstream'))
WholeMessages ==
    /\ fstream = <<>> \/ fstream[Len(fstream)] = NL
    /\ LastRead[Len(LastRead)] = NL

\* C18: after a read that returns k complete newline-terminated messages and
\* nothing else, the calls of frame() return these k payloads, in order, and
\* then None
C18_SeveralPerRead ==
    [][(ReadStep /\ WholeMessages) =>
          /\ FrameFrame(fframe').tag # "Panic"
          /\ FramesOf(fframe') = LinesOf(LastRead)]_vars

----------------------------------------------------------------------------
(* The command parser alone: Command::parse applied to one payload line.   *)
(* A line is up to MaxPieces pieces and the newline frame() leaves on it.  *)

MaxPieces == 5

Pieces == {JOIN, PART, MSG, <<"j", "o">>, <<SP>>, <<"a">>, <<Bad>>}
ParserLines == {Flatten(ps) \o <<NL>> : ps \in SeqsOf(Pieces, 0, MaxPieces)}

NotParsed == [tag |-> "NotParsed"]

PrsInit == pline \in ParserLines /\ pres = NotParsed

ParseLine ==
    /\ pres = NotParsed
    /\ pres' = Parse(pline)
    /\ UNCHANGED <<pline, srvVars, frmVars, rdrVars>>

PrsNext == ParseLine

InitParse == SrvInit /\ FrmIdle /\ PrsInit /\ RdrIdle
SpecParse == InitParse /\ [][PrsNext]_vars

NoSpace(s) == \A i \in 1..Len(s) : s[i] # SP
StartsWith(s, pre) == Len(s) >= Len(pre) /\ SubSeq(s, 1, Len(pre)) = pre
After(s, pre) == SubSeq(s, Len(pre) + 1, Len(s))

\* the grammar of the protocol: `join r`, `part r` with r non-empty and free
\* of spaces; `msg r b` with r the text up to the first space after the verb's
\* and b all that follows; valid text only; anything else is no command
RefParse(line) ==
    LET body == SubSeq(line, 1, Len(line) - 1)
        isRoom(r) == r # <<>> /\ NoSpace(r)
        rest == After(body, MSG \o <<SP>>)
        cuts == {k \in 1..Len(rest) : rest[k] = SP /\ NoSpace(SubSeq(rest, 1, k - 1))}
    IN  IF ~ValidUtf8(line) THEN None
        ELSE IF StartsWith(body, JOIN \o <<SP>>) /\ isRoom(After(body, JOIN \o <<SP>>))
        THEN Join(After(body, JOIN \o <<SP>>))
        ELSE IF StartsWith(body, PART \o <<SP>>) /\ isRoom(After(body, PART \o <<SP>>))
        THEN Part(After(body, PART \o <<SP>>))
        ELSE IF StartsWith(body, MSG \o <<SP>>) /\ cuts # {}
        THEN LET k == CHOOSE k \in cuts : TRUE
             IN  Msg(SubSeq(rest, 1, k - 1), SubSeq(rest, k + 1, Len(rest)))
        ELSE None

\* C8: the parser's result on every line is the one the grammar gives
C8_ParserMatchesGrammar == pres # NotParsed => pres = RefParse(pline)

\* a `msg` line whose body holds a space has been parsed to a Msg
C8_Witness ==
    /\ pres.tag = "Msg"
    /\ pres.room # <<>>
    /\ ~NoSpace(pres.msg)
    /\ pres = RefParse(pline)

\* C9: every Command the parser returns carries a room name that is
\* non-empty and holds no space
C9_RoomNameConstraint ==
    pres.tag \in {"Join", "Part", "Msg"} => pres.room # <<>> /\ NoSpace(pres.room)

----------------------------------------------------------------------------
(* One turn of the reader alone: a read that returns whole lines, from one *)
(* to MaxLines of them, and the inner loop of handle_reader to its end,    *)
(* for a connection that is Anon or Named before the read.                 *)

MaxLines == 3

LineBadRoom == JOIN \o <<SP>> \o RoomR \o <<SP>> \o BodyX \o <<NL>>
LineBad == <<Bad, NL>>
ReaderLines == {LineA, LineJoin, LinePart, LineMsg, LineBadRoom, LineBad}

NotRun == [rpc |-> "none"]

RdrInit ==
    /\ rstate \in {Anon, User(NewSender(0, Pop(LineA)))}
    /\ rlines \in SeqsOf(ReaderLines, 1, MaxLines)
    /\ rres = NotRun

\* the reader's Frame before the read: new for an Anon connection; for the
\* Named one, as the read of its username line has left it
FrameBefore(st) ==
    IF st = Anon THEN FrameNew
    ELSE Drain(0, FrameUpdate(ReadInto(FrameNew, LineA), Len(LineA)), Anon, <<>>, 0).frame

\* reader.read returns the lines, frame.update, and the inner loop to its end
ReadTurn ==
    /\ rres = NotRun
    /\ Len(Flatten(rlines)) <= BufSize
    /\ rres' = Drain(0, FrameUpdate(ReadInto(FrameBefore(rstate), Flatten(rlines)),
                                    Len(Flatten(rlines))),
                     rstate, <<>>, 0)
    /\ UNCHANGED <<rstate, rlines, srvVars, frmVars, prsVars>>

RdrNext == ReadTurn

InitReader == SrvInit /\ FrmIdle /\ PrsIdle /\ RdrInit
SpecReader == InitReader /\ [][RdrNext]_vars

\* the pairs a Named reader is to send for lines: one for each line that is
\* a command of the grammar, in the order of the lines
RECURSIVE PairsOf(_, _)
PairsOf(lines, sender) ==
    IF lines = <<>> THEN <<>>
    ELSE (IF RefParse(Head(lines)) = None THEN <<>>
          ELSE <<[cmd |-> RefParse(Head(lines)), sender |-> sender]>>)
         \o PairsOf(Tail(lines), sender)

\* C14: a payload the parser rejects while the connection is Named sends
\* nothing to the registry, leaves the connection Named with the same Sender
\* and does not end the reader; the valid lines after it, those of the same
\* read too, are parsed and sent on
C14_SilentRejection ==
    (rstate # Anon /\ rres # NotRun) =>
        /\ rres.rpc = "read"
        /\ rres.state = rstate
        /\ rres.n = Len(rlines)
        /\ rres.pairs = PairsOf(rlines, rstate.sender)

\* a Named reader has read a rejected line, be it an unknown verb, a room
\* name with a space or bytes that are no text, and a valid line after it in
\* the same read, and has sent the valid line's command on
C14_Witness ==
    /\ rstate # Anon
    /\ rres # NotRun
    /\ Len(rlines) = 3
    /\ rlines[1] \in {LineA, LineBadRoom}
    /\ rlines[2] = LineBad
    /\ RefParse(rlines[3]) # None
    /\ rres.pairs = <<[cmd |-> RefParse(rlines[3]), sender |-> rstate.sender]>>

\* C19: whatever the first payload of a connection holds, bytes that are no
\* text too, the reader does not abort: the connection is Named after it and
\* the reader takes the lines that follow it
C19_AnyFirstLine ==
    (rstate = Anon /\ rres # NotRun) =>
        /\ rres.rpc = "read"
        /\ rres.state # Anon
        /\ rres.n = Len(rlines)

====
